---- MODULE Spec2Model ----
(***************************************************************************)
(* The protocol value model of src/src/models.rs: the entity types and     *)
(* the encode / decode pair that #[derive(Serialize, Deserialize)] gives   *)
(* each of them over JSON documents.                                       *)
(*                                                                         *)
(* A type is the data its derive reads, and encode and decode follow it.    *)
(* A JSON document is a tagged record; a JSON object is the sequence of    *)
(* its <<key, value>> members in document order, so that duplicate keys    *)
(* and the order in which a decoder meets errors are both expressible.     *)
(* An f32 is the token of its shortest decimal form ("0.5"), or one of the *)
(* non-finite tokens "NaN" and "inf".                                      *)
(***************************************************************************)
EXTENDS Integers, Sequences, FiniteSets, TLC

VARIABLES pc, kind, entity, wire, edits, result

vars == <<pc, kind, entity, wire, edits, result>>

\* ------------------------------------------------------------------ bounds
MaxEdits == 1

\* ------------------------------------------------------- JSON documents
JNull == [k |-> "null"]
JStr(s) == [k |-> "str", s |-> s]
JBool(b) == [k |-> "bool", b |-> b]
JNum(n) == [k |-> "num", n |-> n]
JArr(a) == [k |-> "arr", a |-> a]
JObj(o) == [k |-> "obj", o |-> o]

Keys(o) == {o[i][1] : i \in DOMAIN o}

HasKey(doc, key) == doc.k = "obj" /\ key \in Keys(doc.o)

Min(S) == CHOOSE i \in S : \A j \in S : i <= j

\* The value of the first member named key.
ValueOf(o, key) == o[Min({i \in DOMAIN o : o[i][1] = key})][2]

\* The value of the last member named key (a map keeps the last insert).
LastValueOf(o, key) == o[CHOOSE i \in DOMAIN o : o[i][1] = key /\ \A j \in DOMAIN o : o[j][1] = key => j <= i][2]

\* ------------------------------------------------------ Option and Result
None == [some |-> FALSE]
Some(x) == [some |-> TRUE, val |-> x]

Ok(x) == [ok |-> TRUE, val |-> x]
Err(e, w) == [ok |-> FALSE, err |-> e, what |-> w]

\* ---------------------------------------------------------------- types
\* A type is written as the data its derive reads: the fields of a struct
\* in declaration order, each with its name, its key on the wire and its
\* type.
TString == [t |-> "String"]

TBool == [t |-> "bool"]

TF32 == [t |-> "f32"]

\* serde_json::Value
TValue == [t |-> "Value"]

TOption(ty) == [t |-> "Option", of |-> ty]

TVec(ty) == [t |-> "Vec", of |-> ty]

\* HashMap<String, V>
THashMap(ty) == [t |-> "HashMap", of |-> ty]

Struct(fields) == [t |-> "struct", fields |-> fields]

Field(name, ty) == [name |-> name, key |-> name, ty |-> ty]

\* A field under #[serde(rename = key)].
Renamed(name, key, ty) == [name |-> name, key |-> key, ty |-> ty]

Role == [t |-> "Role"]

RoleVariants == {"User", "Assistant", "System"}

\* #[serde(rename_all = "lowercase")] on Role.
RoleToken(r) == CASE r = "User" -> "user" [] r = "Assistant" -> "assistant" [] r = "System" -> "system"

Annotations == Struct(<<Field("audience", TOption(TVec(Role))), Field("priority", TOption(TF32))>>)

BlobResourceContents == Struct(<<Field("blob", TString), Field("mime_type", TOption(TString)), Field("uri", TString)>>)

CallToolParams == Struct(<<Field("name", TString), Field("arguments", TOption(THashMap(TValue)))>>)

CallToolRequest == Struct(<<Field("method", TString), Field("params", CallToolParams)>>)

TextContent == Struct(<<Field("text", TString), Field("annotations", TOption(Annotations))>>)

ImageContent == Struct(<<Field("image_data", TString), Field("mime_type", TString), Field("annotations", TOption(Annotations))>>)

Resource == Struct(<<Field("uri", TString), Field("name", TOption(TString)), Field("mime_type", TOption(TString)), Field("annotations", TOption(Annotations))>>)

EmbeddedResource == Struct(<<Field("resource", Resource), Field("annotations", TOption(Annotations))>>)

\* #[serde(tag = "type")]: an internally tagged enum of three newtype
\* variants.
ContentType == [t |-> "ContentType", variants |-> [Text |-> TextContent, Image |-> ImageContent, EmbeddedResource |-> EmbeddedResource]]

ContentVariants == {"Text", "Image", "EmbeddedResource"}

TagKey == "type"

\* ContentType has no rename: the tag is the variant's declared name.
VariantTag(v) == v

CallToolResult == Struct(<<Field("content", TVec(ContentType)), Field("is_error", TOption(TBool)), Renamed("meta", "_meta", TOption(THashMap(TValue)))>>)

RootsCapability == Struct(<<Field("list_changed", TBool)>>)

ClientCapabilities == Struct(<<Field("roots", TOption(RootsCapability)), Field("sampling", TOption(THashMap(TValue))), Field("experimental", TOption(THashMap(THashMap(TValue))))>>)

Tool == Struct(<<Field("name", TString), Field("description", TString), Field("parameters", TValue), Field("returns", TOption(TValue)), Field("annotations", TOption(Annotations))>>)

ResourceTemplate == Struct(<<Field("name", TString), Field("description", TOption(TString)), Field("annotations", TOption(Annotations))>>)

ServerCapabilities == Struct(<<Field("experimental", TOption(THashMap(THashMap(TValue)))), Field("tools", TOption(TVec(Tool))), Field("prompts", TOption(TVec(ResourceTemplate)))>>)

InitializeResult == Struct(<<Field("capabilities", ServerCapabilities), Renamed("meta", "_meta", TOption(THashMap(TValue)))>>)

Root == Struct(<<Field("name", TOption(TString)), Field("uri", TString), Field("annotations", TOption(Annotations))>>)

FieldKeys(fields) == {fields[i].key : i \in DOMAIN fields}

FieldNames(fields) == {fields[i].name : i \in DOMAIN fields}

\* ---------------------------------------------------------------- encode
RECURSIVE Enc(_, _)

RECURSIVE SetToSeq(_)
SetToSeq(S) == IF S = {} THEN <<>> ELSE LET x == CHOOSE x \in S : TRUE IN <<x>> \o SetToSeq(S \ {x})

IsFiniteF32(f) == f \notin {"NaN", "inf"}

\* serde_json writes a non-finite float as null.
EncF32(f) == IF IsFiniteF32(f) THEN JNum(f) ELSE JNull

\* Option<T>: None is written as null (no field has skip_serializing_if).
EncOption(ty, x) == IF x.some THEN Enc(ty, x.val) ELSE JNull

EncVec(ty, xs) == JArr([i \in DOMAIN xs |-> Enc(ty, xs[i])])

\* A map is written as an object, one member per entry.
EncMap(ty, m) == LET ks == SetToSeq(DOMAIN m) IN JObj([i \in DOMAIN ks |-> <<ks[i], Enc(ty, m[ks[i]])>>])

\* A derived struct is written as an object, its fields in declaration
\* order, each under its wire key.
EncStruct(fields, x) == JObj([i \in DOMAIN fields |-> <<fields[i].key, Enc(fields[i].ty, x[fields[i].name])>>])

\* The variant's struct under a key of its own, as an adjacently tagged
\* enum would be written.
EncodeContentTypeNested(x) == JObj(<<<<TagKey, JStr(VariantTag(x.variant))>>, <<"content", Enc(ContentType.variants[x.variant], x.inner)>>>>)

\* An internally tagged enum: the variant's struct is written flat, with
\* the member "type" in front of its fields.
EncodeContentType(x) == JObj(<<<<TagKey, JStr(VariantTag(x.variant))>>>> \o Enc(ContentType.variants[x.variant], x.inner).o)

Enc(ty, x) ==
  CASE ty.t = "String" -> JStr(x)
    [] ty.t = "bool" -> JBool(x)
    [] ty.t = "f32" -> EncF32(x)
    [] ty.t = "Value" -> x
    [] ty.t = "Role" -> JStr(RoleToken(x))
    [] ty.t = "Option" -> EncOption(ty.of, x)
    [] ty.t = "Vec" -> EncVec(ty.of, x)
    [] ty.t = "HashMap" -> EncMap(ty.of, x)
    [] ty.t = "struct" -> EncStruct(ty.fields, x)
    [] ty.t = "ContentType" -> EncodeContentType(x)

\* ---------------------------------------------------------------- decode
RECURSIVE Dec(_, _)

DecString(v) == IF v.k = "str" THEN Ok(v.s) ELSE Err("invalid_type", "string")

DecBool(v) == IF v.k = "bool" THEN Ok(v.b) ELSE Err("invalid_type", "bool")

DecF32(v) == IF v.k = "num" THEN Ok(v.n) ELSE Err("invalid_type", "f32")

\* serde_json::Value takes any document as it is.
DecValue(v) == Ok(v)

\* Option<T>: null is None, anything else is Some of the inner decode.
DecOption(ty, v) == IF v.k = "null" THEN Ok(None) ELSE LET r == Dec(ty, v) IN IF r.ok THEN Ok(Some(r.val)) ELSE r

\* Vec<T>: the first element that fails to decode fails the sequence.
DecVec(ty, v) ==
  IF v.k # "arr" THEN Err("invalid_type", "sequence")
  ELSE LET bad == {i \in DOMAIN v.a : ~Dec(ty, v.a[i]).ok}
       IN IF bad # {} THEN Dec(ty, v.a[Min(bad)])
          ELSE Ok([i \in DOMAIN v.a |-> Dec(ty, v.a[i]).val])

\* A map is read from an object; a repeated key keeps its last value.
DecMap(ty, v) ==
  IF v.k # "obj" THEN Err("invalid_type", "map")
  ELSE LET bad == {i \in DOMAIN v.o : ~Dec(ty, v.o[i][2]).ok}
       IN IF bad # {} THEN Dec(ty, v.o[Min(bad)][2])
          ELSE Ok([key \in Keys(v.o) |-> Dec(ty, LastValueOf(v.o, key)).val])

\* A variant name of Role from its wire token, as it would be if the
\* declared names were taken too.
RoleOfTokenAnyCase(t) ==
  IF \E r \in RoleVariants : t \in {RoleToken(r), r}
  THEN Ok(CHOOSE r \in RoleVariants : t \in {RoleToken(r), r})
  ELSE Err("unknown_variant", t)

\* A variant name of Role from its wire token.
RoleOfToken(t) ==
  IF \E r \in RoleVariants : RoleToken(r) = t
  THEN Ok(CHOOSE r \in RoleVariants : RoleToken(r) = t)
  ELSE Err("unknown_variant", t)

\* A unit-variant enum: the token as a string, or the one-member object
\* {token: null} that serde_json also takes for an enum.
DecRole(v) ==
  CASE v.k = "str" -> RoleOfToken(v.s)
    [] v.k = "obj" /\ Len(v.o) = 1 ->
         LET r == RoleOfToken(v.o[1][1])
         IN IF ~r.ok THEN r
            ELSE IF v.o[1][2].k = "null" THEN r
            ELSE Err("invalid_type", "unit variant")
    [] v.k = "obj" /\ Len(v.o) # 1 -> Err("invalid_value", "enum")
    [] OTHER -> Err("invalid_type", "enum")

\* A derived struct read from an array (visit_seq): the fields by position.
DecodeStructSeq(fields, a) ==
  LET bad == {i \in DOMAIN fields : i > Len(a) \/ ~Dec(fields[i].ty, a[i]).ok}
  IN IF bad # {} THEN (IF Min(bad) > Len(a) THEN Err("invalid_length", "struct") ELSE Dec(fields[Min(bad)].ty, a[Min(bad)]))
     ELSE IF Len(a) > Len(fields) THEN Err("invalid_length", "struct")
     ELSE Ok([name \in FieldNames(fields) |-> LET i == CHOOSE i \in DOMAIN fields : fields[i].name = name IN Dec(fields[i].ty, a[i]).val])

\* A field whose key the document does not hold, as it would be if the
\* decoder put a default in its place.
MissingFieldDefaulted(field) == Ok(None)

\* A field whose key the document does not hold: an Option field is None,
\* any other is the missing-field error naming the key.
MissingField(field) == IF field.ty.t = "Option" THEN Ok(None) ELSE Err("missing_field", field.key)

\* A member under a key the struct does not declare, as it would be under
\* deny_unknown_fields.
UnknownMemberDenied(key) == Err("unknown_field", key)

\* A member under a key the struct does not declare is read and dropped.
UnknownMember(key) == Ok(None)

\* A derived struct read from an object (visit_map): the members are taken
\* in document order, a repeated known key or a value that does not decode
\* ends the decode there, unknown keys are skipped; then the fields never
\* met are filled in declaration order.
DecodeStructMap(fields, o) ==
  LET FieldOf(key) == fields[CHOOSE i \in DOMAIN fields : fields[i].key = key]
      Dup(i) == \E j \in 1..(i - 1) : o[j][1] = o[i][1]
      Member(i) ==
        IF o[i][1] \notin FieldKeys(fields) THEN UnknownMember(o[i][1])
        ELSE IF Dup(i) THEN Err("duplicate_field", o[i][1])
        ELSE Dec(FieldOf(o[i][1]).ty, o[i][2])
      bad == {i \in DOMAIN o : ~Member(i).ok}
      missing == {i \in DOMAIN fields : fields[i].key \notin Keys(o) /\ ~MissingField(fields[i]).ok}
  IN IF bad # {} THEN Member(Min(bad))
     ELSE IF missing # {} THEN MissingField(fields[Min(missing)])
     ELSE Ok([name \in FieldNames(fields) |->
                LET fd == fields[CHOOSE i \in DOMAIN fields : fields[i].name = name]
                IN IF fd.key \in Keys(o) THEN Dec(fd.ty, ValueOf(o, fd.key)).val ELSE MissingField(fd).val])

DecodeStruct(fields, v) ==
  CASE v.k = "obj" -> DecodeStructMap(fields, v.o)
    [] v.k = "arr" -> DecodeStructSeq(fields, v.a)
    [] OTHER -> Err("invalid_type", "struct")

\* The variant a tag value names, as it would be with a fallback variant
\* for the tags that name none.
DecVariantTagFallback(t) ==
  IF t.k # "str" THEN Err("invalid_type", "variant identifier")
  ELSE IF \E c \in ContentVariants : VariantTag(c) = t.s
  THEN Ok(CHOOSE c \in ContentVariants : VariantTag(c) = t.s)
  ELSE Ok("Text")

\* The variant a tag value names: a string equal to one of the three tags.
DecVariantTag(t) ==
  IF t.k # "str" THEN Err("invalid_type", "variant identifier")
  ELSE IF \E c \in ContentVariants : VariantTag(c) = t.s
  THEN Ok(CHOOSE c \in ContentVariants : VariantTag(c) = t.s)
  ELSE Err("unknown_variant", t.s)

\* The variant's struct is read from what the document holds beside the
\* tag.
DecodeTagged(tag, rest) ==
  LET tr == DecVariantTag(tag)
      r == Dec(ContentType.variants[tr.val], rest)
  IN IF ~tr.ok THEN tr
     ELSE IF ~r.ok THEN r
     ELSE Ok([variant |-> tr.val, inner |-> r.val])

\* The tag is searched among the members, the others are set aside; a tag
\* that names no variant, or a second tag, ends the decode; with no tag
\* the decode ends with the missing-field error for "type".
DecodeContentType(v) ==
  CASE v.k = "obj" ->
         LET tags == {i \in DOMAIN v.o : v.o[i][1] = TagKey}
             NotTag(m) == m[1] # TagKey
         IN IF tags = {} THEN Err("missing_field", TagKey)
            ELSE IF ~DecVariantTag(v.o[Min(tags)][2]).ok THEN DecVariantTag(v.o[Min(tags)][2])
            ELSE IF Cardinality(tags) > 1 THEN Err("duplicate_field", TagKey)
            ELSE DecodeTagged(v.o[Min(tags)][2], JObj(SelectSeq(v.o, NotTag)))
    [] v.k = "arr" ->
         IF Len(v.a) = 0 THEN Err("invalid_length", "tagged enum")
         ELSE DecodeTagged(Head(v.a), JArr(Tail(v.a)))
    [] OTHER -> Err("invalid_type", "tagged enum")

Dec(ty, v) ==
  CASE ty.t = "String" -> DecString(v)
    [] ty.t = "bool" -> DecBool(v)
    [] ty.t = "f32" -> DecF32(v)
    [] ty.t = "Value" -> DecValue(v)
    [] ty.t = "Role" -> DecRole(v)
    [] ty.t = "Option" -> DecOption(ty.of, v)
    [] ty.t = "Vec" -> DecVec(ty.of, v)
    [] ty.t = "HashMap" -> DecMap(ty.of, v)
    [] ty.t = "struct" -> DecodeStruct(ty.fields, v)
    [] ty.t = "ContentType" -> DecodeContentType(v)

\* ------------------------------------------------ the values exercised
OptionOf(S) == {None} \cup {Some(x) : x \in S}

AudienceSamples == {<<>>, <<"User", "Assistant", "System">>}

PrioritySamples == {"0.5", "1.5", "inf", "NaN"}

AnnotationsValues == [audience : OptionOf(AudienceSamples), priority : OptionOf(PrioritySamples)]

AnnotationsAbsent == [audience |-> None, priority |-> None]

AnnotationsFull == [audience |-> Some(<<"User", "Assistant", "System">>), priority |-> Some("0.5")]

OptAnnotations == OptionOf({AnnotationsAbsent, AnnotationsFull})

OptString == OptionOf({"x"})

ResourceValues == [uri : {"file:///a"}, name : OptString, mime_type : OptString, annotations : OptAnnotations]

ResourceAbsent == [uri |-> "file:///a", name |-> None, mime_type |-> None, annotations |-> None]

ResourceFull == [uri |-> "file:///a", name |-> Some("x"), mime_type |-> Some("x"), annotations |-> Some(AnnotationsFull)]

\* One string that is base64 and one that is not.
BlobSamples == {"aGVsbG8=", "not base64!"}

BlobResourceContentsValues == [blob : BlobSamples, mime_type : OptString, uri : {"file:///a"}]

TextContentValues == [text : {"hello"}, annotations : OptAnnotations]

ImageContentValues == [image_data : BlobSamples, mime_type : {"image/png"}, annotations : OptAnnotations]

EmbeddedResourceValues == [resource : {ResourceAbsent, ResourceFull}, annotations : OptAnnotations]

ContentTypeValues ==
  [variant : {"Text"}, inner : TextContentValues]
    \cup [variant : {"Image"}, inner : ImageContentValues]
    \cup [variant : {"EmbeddedResource"}, inner : EmbeddedResourceValues]

TextSample == [variant |-> "Text", inner |-> [text |-> "hello", annotations |-> None]]

ImageSample == [variant |-> "Image", inner |-> [image_data |-> "aGVsbG8=", mime_type |-> "image/png", annotations |-> Some(AnnotationsFull)]]

EmbeddedSample == [variant |-> "EmbeddedResource", inner |-> [resource |-> ResourceFull, annotations |-> Some(AnnotationsAbsent)]]

\* serde_json::Value samples: a schema object, the empty object, null.
SchemaSample == JObj(<<<<"type", JStr("object")>>>>)

ValueSamples == {SchemaSample, JObj(<<>>), JNull}

ValueMapSamples == {<<>>, [key \in {"query"} |-> JStr("rust")]}

ValueMapMapSamples == {<<>>, [key \in {"feature"} |-> [key2 \in {"on"} |-> JBool(TRUE)]]}

ToolValues == [name : {"search"}, description : {"finds things"}, parameters : ValueSamples, returns : OptionOf(ValueSamples), annotations : OptAnnotations]

ToolSample == [name |-> "search", description |-> "finds things", parameters |-> SchemaSample, returns |-> Some(SchemaSample), annotations |-> Some(AnnotationsFull)]

ResourceTemplateValues == [name : {"tmpl"}, description : OptString, annotations : OptAnnotations]

ResourceTemplateSample == [name |-> "tmpl", description |-> None, annotations |-> None]

RootsCapabilityValues == [list_changed : BOOLEAN]

ClientCapabilitiesValues == [roots : OptionOf(RootsCapabilityValues), sampling : OptionOf(ValueMapSamples), experimental : OptionOf(ValueMapMapSamples)]

ServerCapabilitiesValues == [experimental : OptionOf(ValueMapMapSamples), tools : OptionOf({<<>>, <<ToolSample>>}), prompts : OptionOf({<<>>, <<ResourceTemplateSample>>})]

ServerCapabilitiesAbsent == [experimental |-> None, tools |-> None, prompts |-> None]

ServerCapabilitiesEmpty == [experimental |-> None, tools |-> Some(<<>>), prompts |-> Some(<<>>)]

ServerCapabilitiesFull == [experimental |-> Some([key \in {"feature"} |-> [key2 \in {"on"} |-> JBool(TRUE)]]), tools |-> Some(<<ToolSample>>), prompts |-> Some(<<ResourceTemplateSample>>)]

RootValues == [name : OptString, uri : {"file:///a"}, annotations : OptAnnotations]

CallToolParamsValues == [name : {"search"}, arguments : OptionOf(ValueMapSamples)]

\* method is a String field: the literal and one other string.
CallToolRequestValues == [method : {"tools/call", "tools/list"}, params : CallToolParamsValues]

CallToolResultValues == [content : {<<>>, <<TextSample>>, <<TextSample, ImageSample, EmbeddedSample>>}, is_error : OptionOf(BOOLEAN), meta : OptionOf(ValueMapSamples)]

InitializeResultValues == [capabilities : {ServerCapabilitiesAbsent, ServerCapabilitiesEmpty, ServerCapabilitiesFull}, meta : OptionOf(ValueMapSamples)]

\* ------------------------------------------------- encode / decode by kind
TypeOf(kd) ==
  CASE kd = "Annotations" -> Annotations
    [] kd = "Resource" -> Resource
    [] kd = "BlobResourceContents" -> BlobResourceContents
    [] kd = "ContentType" -> ContentType
    [] kd = "Tool" -> Tool
    [] kd = "ResourceTemplate" -> ResourceTemplate
    [] kd = "RootsCapability" -> RootsCapability
    [] kd = "ClientCapabilities" -> ClientCapabilities
    [] kd = "ServerCapabilities" -> ServerCapabilities
    [] kd = "Root" -> Root
    [] kd = "CallToolParams" -> CallToolParams
    [] kd = "CallToolRequest" -> CallToolRequest
    [] kd = "CallToolResult" -> CallToolResult
    [] kd = "InitializeResult" -> InitializeResult

Encode(kd, x) == Enc(TypeOf(kd), x)

Decode(kd, v) == Dec(TypeOf(kd), v)

\* The struct that holds the fields of an entity: the entity itself, or
\* the variant's struct of a ContentType.
Body(kd, x) == IF kd = "ContentType" THEN x.inner ELSE x

\* The fields of an entity that are Option.
OptionalFields(kd, x) ==
  LET fields == IF kd = "ContentType" THEN ContentType.variants[x.variant].fields ELSE TypeOf(kd).fields
  IN {fields[i] : i \in {j \in DOMAIN fields : fields[j].ty.t = "Option"}}

\* --------------------------------------------- documents from elsewhere
\* What a peer may put under a key of a document.
ForeignValues == {JNull, JNum("1"), JStr("video"), JStr("Image"), JArr(<<JStr("user"), JStr("User")>>)}

ForeignKey == "extra_field"

DropMember(doc, key) == LET Keep(m) == m[1] # key IN JObj(SelectSeq(doc.o, Keep))

PutMember(doc, key, v) ==
  IF key \in Keys(doc.o)
  THEN JObj([i \in DOMAIN doc.o |-> IF doc.o[i][1] = key THEN <<key, v>> ELSE doc.o[i]])
  ELSE JObj(Append(doc.o, <<key, v>>))

Drop(key) == [op |-> "drop", key |-> key, val |-> JNull]

Put(key, v) == [op |-> "put", key |-> key, val |-> v]

\* ---------------------------------------------------------- the machine
NoEntity == [none |-> TRUE]

Init ==
  /\ pc = "idle"
  /\ kind = "none"
  /\ entity = NoEntity
  /\ wire = JNull
  /\ edits = <<>>
  /\ result = NoEntity

\* encode(x): the document of an entity.
EncodeStep(kd, x) ==
  /\ pc' = "encoded"
  /\ kind' = kd
  /\ entity' = x
  /\ wire' = Encode(kd, x)
  /\ edits' = <<>>
  /\ result' = NoEntity

EncodeAnnotationsCall ==
  /\ pc = "idle"
  /\ \E x \in AnnotationsValues : EncodeStep("Annotations", x)

EncodeResourceCall ==
  /\ pc = "idle"
  /\ \E x \in ResourceValues : EncodeStep("Resource", x)

EncodeBlobResourceContentsCall ==
  /\ pc = "idle"
  /\ \E x \in BlobResourceContentsValues : EncodeStep("BlobResourceContents", x)

EncodeContentTypeCall ==
  /\ pc = "idle"
  /\ \E x \in ContentTypeValues : EncodeStep("ContentType", x)

EncodeToolCall ==
  /\ pc = "idle"
  /\ \E x \in ToolValues : EncodeStep("Tool", x)

EncodeResourceTemplateCall ==
  /\ pc = "idle"
  /\ \E x \in ResourceTemplateValues : EncodeStep("ResourceTemplate", x)

EncodeRootsCapabilityCall ==
  /\ pc = "idle"
  /\ \E x \in RootsCapabilityValues : EncodeStep("RootsCapability", x)

EncodeClientCapabilitiesCall ==
  /\ pc = "idle"
  /\ \E x \in ClientCapabilitiesValues : EncodeStep("ClientCapabilities", x)

EncodeServerCapabilitiesCall ==
  /\ pc = "idle"
  /\ \E x \in ServerCapabilitiesValues : EncodeStep("ServerCapabilities", x)

EncodeRootCall ==
  /\ pc = "idle"
  /\ \E x \in RootValues : EncodeStep("Root", x)

EncodeCallToolParamsCall ==
  /\ pc = "idle"
  /\ \E x \in CallToolParamsValues : EncodeStep("CallToolParams", x)

EncodeCallToolRequestCall ==
  /\ pc = "idle"
  /\ \E x \in CallToolRequestValues : EncodeStep("CallToolRequest", x)

EncodeCallToolResultCall ==
  /\ pc = "idle"
  /\ \E x \in CallToolResultValues : EncodeStep("CallToolResult", x)

EncodeInitializeResultCall ==
  /\ pc = "idle"
  /\ \E x \in InitializeResultValues : EncodeStep("InitializeResult", x)

\* The document in flight comes from a peer that left a member out ...
DropKey ==
  /\ pc = "encoded"
  /\ Len(edits) < MaxEdits
  /\ \E key \in Keys(wire.o) :
       /\ wire' = DropMember(wire, key)
       /\ edits' = Append(edits, Drop(key))
  /\ UNCHANGED <<pc, kind, entity, result>>

\* ... or wrote a member of its own.
PutKey ==
  /\ pc = "encoded"
  /\ Len(edits) < MaxEdits
  /\ \E key \in Keys(wire.o) \cup {ForeignKey}, v \in ForeignValues :
       /\ wire' = PutMember(wire, key, v)
       /\ edits' = Append(edits, Put(key, v))
  /\ UNCHANGED <<pc, kind, entity, result>>

\* decode(document): the entity, or the error.
DecodeStep(r) ==
  /\ pc' = "decoded"
  /\ result' = r
  /\ UNCHANGED <<kind, entity, wire, edits>>

DecodeAnnotationsCall ==
  /\ pc = "encoded"
  /\ kind = "Annotations"
  /\ DecodeStep(Dec(Annotations, wire))

DecodeResourceCall ==
  /\ pc = "encoded"
  /\ kind = "Resource"
  /\ DecodeStep(Dec(Resource, wire))

DecodeBlobResourceContentsCall ==
  /\ pc = "encoded"
  /\ kind = "BlobResourceContents"
  /\ DecodeStep(Dec(BlobResourceContents, wire))

DecodeContentTypeCall ==
  /\ pc = "encoded"
  /\ kind = "ContentType"
  /\ DecodeStep(Dec(ContentType, wire))

DecodeToolCall ==
  /\ pc = "encoded"
  /\ kind = "Tool"
  /\ DecodeStep(Dec(Tool, wire))

DecodeResourceTemplateCall ==
  /\ pc = "encoded"
  /\ kind = "ResourceTemplate"
  /\ DecodeStep(Dec(ResourceTemplate, wire))

DecodeRootsCapabilityCall ==
  /\ pc = "encoded"
  /\ kind = "RootsCapability"
  /\ DecodeStep(Dec(RootsCapability, wire))

DecodeClientCapabilitiesCall ==
  /\ pc = "encoded"
  /\ kind = "ClientCapabilities"
  /\ DecodeStep(Dec(ClientCapabilities, wire))

DecodeServerCapabilitiesCall ==
  /\ pc = "encoded"
  /\ kind = "ServerCapabilities"
  /\ DecodeStep(Dec(ServerCapabilities, wire))

DecodeRootCall ==
  /\ pc = "encoded"
  /\ kind = "Root"
  /\ DecodeStep(Dec(Root, wire))

DecodeCallToolParamsCall ==
  /\ pc = "encoded"
  /\ kind = "CallToolParams"
  /\ DecodeStep(Dec(CallToolParams, wire))

DecodeCallToolRequestCall ==
  /\ pc = "encoded"
  /\ kind = "CallToolRequest"
  /\ DecodeStep(Dec(CallToolRequest, wire))

DecodeCallToolResultCall ==
  /\ pc = "encoded"
  /\ kind = "CallToolResult"
  /\ DecodeStep(Dec(CallToolResult, wire))

DecodeInitializeResultCall ==
  /\ pc = "encoded"
  /\ kind = "InitializeResult"
  /\ DecodeStep(Dec(InitializeResult, wire))

\* The call is over; the next one starts from nothing: no state is kept
\* from one call to another.
Return ==
  /\ pc = "decoded"
  /\ pc' = "idle"
  /\ kind' = "none"
  /\ entity' = NoEntity
  /\ wire' = JNull
  /\ edits' = <<>>
  /\ result' = NoEntity

Next ==
  \/ EncodeAnnotationsCall
  \/ EncodeResourceCall
  \/ EncodeBlobResourceContentsCall
  \/ EncodeContentTypeCall
  \/ EncodeToolCall
  \/ EncodeResourceTemplateCall
  \/ EncodeRootsCapabilityCall
  \/ EncodeClientCapabilitiesCall
  \/ EncodeServerCapabilitiesCall
  \/ EncodeRootCall
  \/ EncodeCallToolParamsCall
  \/ EncodeCallToolRequestCall
  \/ EncodeCallToolResultCall
  \/ EncodeInitializeResultCall
  \/ DropKey
  \/ PutKey
  \/ DecodeAnnotationsCall
  \/ DecodeResourceCall
  \/ DecodeBlobResourceContentsCall
  \/ DecodeContentTypeCall
  \/ DecodeToolCall
  \/ DecodeResourceTemplateCall
  \/ DecodeRootsCapabilityCall
  \/ DecodeClientCapabilitiesCall
  \/ DecodeServerCapabilitiesCall
  \/ DecodeRootCall
  \/ DecodeCallToolParamsCall
  \/ DecodeCallToolRequestCall
  \/ DecodeCallToolResultCall
  \/ DecodeInitializeResultCall
  \/ Return

Spec == Init /\ [][Next]_vars

\* =============================================================== claims
Encoded == pc = "encoded"

Decoded == pc = "decoded"

\* The document decoded is the one encode wrote.
Pristine == edits = <<>>

OnlyDrops == \A i \in DOMAIN edits : edits[i].op = "drop"

OnlyForeignPuts == \A i \in DOMAIN edits : edits[i].op = "put" /\ edits[i].key = ForeignKey

\* ------------------------------------------------------------------- C1
\* C1: round trip: decoding the document encode wrote for an entity
\* succeeds and gives back that entity, for every entity type and every
\* value, the optional fields absent or present.
C1_RoundTrip == (Decoded /\ Pristine) => result = Ok(entity)

\* The values the round trip loses: a priority that is not finite, and a
\* Tool whose returns is present and null.
Lossy(kd, x) ==
  \/ kd = "Annotations" /\ x.priority.some /\ ~IsFiniteF32(x.priority.val)
  \/ kd = "Tool" /\ x.returns = Some(JNull)

\* Every other value comes back from the round trip as it went in; so do
\* tools absent and tools empty, is_error absent and is_error false.
RoundTripOfTheRest == (Decoded /\ Pristine /\ ~Lossy(kind, entity)) => result = Ok(entity)

\* ------------------------------------------------------------------- C2
\* C2: encode leaves out the key of every optional field that is absent:
\* the document never holds that key, with null or anything else.
C2_AbsentFieldOmitted ==
  (Encoded /\ Pristine) =>
    \A fd \in OptionalFields(kind, entity) :
      ~Body(kind, entity)[fd.name].some => ~HasKey(wire, fd.key)

\* ------------------------------------------------------------------- C3
OptionalKeys == {fd.key : fd \in OptionalFields(kind, entity)}

FieldOfKey(key) == (CHOOSE fd \in OptionalFields(kind, entity) : fd.key = key).name

\* C3: a document without the key of an optional field decodes to the
\* absent state of that field, and the same document with the key present
\* and null never decodes to what the document without the key does.
C3_NullIsNotOmission ==
  (Decoded /\ Len(edits) = 1 /\ edits[1].key \in OptionalKeys) =>
    /\ edits[1].op = "drop" =>
         result.ok /\ Body(kind, result.val)[FieldOfKey(edits[1].key)] = None
    /\ (edits[1].op = "put" /\ edits[1].val = JNull) =>
         result # Decode(kind, DropMember(wire, edits[1].key))

\* ------------------------------------------------------------------- C4
TagLiterals == {"Text", "Image", "EmbeddedResource"}

Tagged == HasKey(wire, "type")

TagValue == ValueOf(wire.o, "type")

TagKnown == Tagged /\ TagValue.k = "str" /\ TagValue.s \in TagLiterals

\* C4 as stated: a ContentType decodes only under one of the three tags,
\* to that variant; under any other discriminator, or none, the decode
\* fails with the unknown-variant error.
C4_UnknownVariantOrNoTag ==
  (Decoded /\ kind = "ContentType") =>
    /\ result.ok => TagKnown /\ result.val.variant = TagValue.s
    /\ ~TagKnown => ~result.ok /\ result.err = "unknown_variant"

\* C4 amended: a ContentType decodes only under one of the three tags, to
\* that variant; any other string tag fails with the unknown-variant error
\* naming it, a tag that is no string with a type error, and a document
\* with no tag with the missing-field error naming "type".
C4_ClosedUnion ==
  (Decoded /\ kind = "ContentType") =>
    /\ result.ok => TagKnown /\ result.val.variant = TagValue.s
    /\ (Tagged /\ TagValue.k = "str" /\ TagValue.s \notin TagLiterals) => result = Err("unknown_variant", TagValue.s)
    /\ (Tagged /\ TagValue.k # "str") => ~result.ok /\ result.err = "invalid_type"
    /\ ~Tagged => result = Err("missing_field", "type")

C4_Witness ==
  /\ Decoded
  /\ kind = "ContentType"
  /\ edits = <<Put("type", JStr("video"))>>
  /\ result = Err("unknown_variant", "video")

\* ------------------------------------------------------------------- C5
\* The keys the data model calls required.
RequiredKeys(kd, doc) ==
  CASE kd = "Annotations" -> {}
    [] kd = "Resource" -> {"uri"}
    [] kd = "BlobResourceContents" -> {"blob", "uri"}
    [] kd = "ContentType" ->
         IF ~(HasKey(doc, "type") /\ ValueOf(doc.o, "type").k = "str") THEN {}
         ELSE CASE ValueOf(doc.o, "type").s = "Text" -> {"text"}
                [] ValueOf(doc.o, "type").s = "Image" -> {"image_data", "mime_type"}
                [] ValueOf(doc.o, "type").s = "EmbeddedResource" -> {"resource"}
                [] OTHER -> {}
    [] kd = "Tool" -> {"name", "description", "parameters"}
    [] kd = "ResourceTemplate" -> {"name"}
    [] kd = "RootsCapability" -> {"list_changed"}
    [] kd = "ClientCapabilities" -> {}
    [] kd = "ServerCapabilities" -> {}
    [] kd = "Root" -> {"uri"}
    [] kd = "CallToolParams" -> {"name"}
    [] kd = "CallToolRequest" -> {"method", "params"}
    [] kd = "CallToolResult" -> {"content"}
    [] kd = "InitializeResult" -> {"capabilities"}

MissingKeys == {key \in RequiredKeys(kind, wire) : ~HasKey(wire, key)}

\* C5: a document that lacks the key of a required field never decodes to
\* an entity; when keys left out are all that sets it apart from a
\* document encode wrote, the error is the missing-field error and names a
\* required key the document lacks.
C5_RequiredFieldRejected ==
  (Decoded /\ MissingKeys # {}) =>
    /\ ~result.ok
    /\ OnlyDrops => result.err = "missing_field" /\ result.what \in MissingKeys

C5_Witness ==
  /\ Decoded
  /\ kind = "BlobResourceContents"
  /\ edits = <<Drop("blob")>>
  /\ result = Err("missing_field", "blob")

\* ------------------------------------------------------------------- C6
\* C6: every CallToolRequest that decode returns has the method
\* "tools/call", and no CallToolRequest with another method is encoded.
C6_LiteralMethod ==
  /\ (Decoded /\ kind = "CallToolRequest" /\ result.ok) => result.val.method = "tools/call"
  /\ (Encoded /\ kind = "CallToolRequest") => entity.method = "tools/call"

\* ------------------------------------------------------------------- C7
\* Of the strings exercised, the one that is base64.
IsBase64(str) == str = "aGVsbG8="

\* C7: a blob or image_data that is not base64 fails the decode with the
\* invalid-encoding error naming the field; one that is base64 decodes and
\* is kept as the string it was.
C7_Base64Validated ==
  /\ (Decoded /\ Pristine /\ kind = "BlobResourceContents") =>
       IF IsBase64(entity.blob)
       THEN result.ok /\ result.val.blob = entity.blob
       ELSE result = Err("invalid_encoding", "blob")
  /\ (Decoded /\ Pristine /\ kind = "ContentType" /\ entity.variant = "Image") =>
       IF IsBase64(entity.inner.image_data)
       THEN result.ok /\ result.val.inner.image_data = entity.inner.image_data
       ELSE result = Err("invalid_encoding", "image_data")

\* ------------------------------------------------------------------- C8
\* C8: a document with a key the model does not know decodes to what the
\* document without that key decodes to, to an entity when the unknown key
\* is all that was added to a document encode wrote, and the entity's own
\* document does not hold the key.
C8_UnknownFieldIgnored ==
  (Decoded /\ HasKey(wire, ForeignKey)) =>
    /\ result = Decode(kind, DropMember(wire, ForeignKey))
    /\ result.ok => ~HasKey(Encode(kind, result.val), ForeignKey)
    /\ OnlyForeignPuts => result.ok /\ result = Decode(kind, Encode(kind, entity))

C8_Witness ==
  /\ Decoded
  /\ kind = "Tool"
  /\ edits = <<Put(ForeignKey, JNum("1"))>>
  /\ result.ok
  /\ ~HasKey(Encode(kind, result.val), ForeignKey)

\* ------------------------------------------------------------------- C9
LowerToken(r) == CASE r = "User" -> "user" [] r = "Assistant" -> "assistant" [] r = "System" -> "system"

UpperVariant(t) == CASE t = "user" -> "User" [] t = "assistant" -> "Assistant" [] t = "system" -> "System"

AudienceOnWire == ValueOf(wire.o, "audience")

AudienceIsTokens == HasKey(wire, "audience") /\ AudienceOnWire.k = "arr" /\ \A i \in DOMAIN AudienceOnWire.a : AudienceOnWire.a[i].k = "str"

BadTokens == {i \in DOMAIN AudienceOnWire.a : AudienceOnWire.a[i].s \notin {"user", "assistant", "system"}}

PriorityDecodes == HasKey(wire, "priority") => ValueOf(wire.o, "priority").k \in {"null", "num"}

\* C9: encode writes a Role as "user", "assistant" or "system"; decode
\* takes those three tokens and no other: an Annotations whose audience
\* holds another token, "User" among them, fails as a whole with the
\* unknown-variant error naming the token.
C9_RoleClosed ==
  /\ (Encoded /\ Pristine /\ kind = "Annotations" /\ entity.audience.some) =>
       AudienceOnWire = JArr([i \in DOMAIN entity.audience.val |-> JStr(LowerToken(entity.audience.val[i]))])
  /\ (Decoded /\ kind = "Annotations" /\ AudienceIsTokens) =>
       /\ BadTokens # {} => ~result.ok
       /\ (BadTokens # {} /\ PriorityDecodes) => result = Err("unknown_variant", AudienceOnWire.a[Min(BadTokens)].s)
       /\ result.ok => result.val.audience = Some([i \in DOMAIN AudienceOnWire.a |-> UpperVariant(AudienceOnWire.a[i].s)])

C9_Witness ==
  /\ Decoded
  /\ kind = "Annotations"
  /\ edits = <<Put("audience", JArr(<<JStr("user"), JStr("User")>>))>>
  /\ result = Err("unknown_variant", "User")

\* ------------------------------------------------------------------ C10
VariantKeys(variant) ==
  CASE variant = "Text" -> {"text", "annotations"}
    [] variant = "Image" -> {"image_data", "mime_type", "annotations"}
    [] variant = "EmbeddedResource" -> {"resource", "annotations"}

\* C10: the document of a ContentType is one object holding "type", with
\* the variant's declared name as its value, and the variant's own fields
\* beside it and under no other key; decode reads them from there.
C10_FlatTaggedShape ==
  /\ (Encoded /\ Pristine /\ kind = "ContentType") =>
       /\ wire.k = "obj"
       /\ Keys(wire.o) = {"type"} \cup VariantKeys(entity.variant)
       /\ ValueOf(wire.o, "type") = JStr(entity.variant)
       /\ entity.variant = "Text" => ValueOf(wire.o, "text") = JStr(entity.inner.text)
       /\ entity.variant = "Image" => ValueOf(wire.o, "image_data") = JStr(entity.inner.image_data) /\ ValueOf(wire.o, "mime_type") = JStr(entity.inner.mime_type)
       /\ entity.variant = "EmbeddedResource" => ValueOf(wire.o, "resource") = Enc(Resource, entity.inner.resource)
       /\ entity.inner.annotations.some => ValueOf(wire.o, "annotations") = Enc(Annotations, entity.inner.annotations.val)
  /\ (Decoded /\ Pristine /\ kind = "ContentType") =>
       /\ result.ok
       /\ result.val.variant = entity.variant
       /\ entity.variant = "Text" => JStr(result.val.inner.text) = ValueOf(wire.o, "text")
       /\ entity.variant = "Image" => JStr(result.val.inner.image_data) = ValueOf(wire.o, "image_data") /\ JStr(result.val.inner.mime_type) = ValueOf(wire.o, "mime_type")
       /\ entity.variant = "EmbeddedResource" => Dec(Resource, ValueOf(wire.o, "resource")) = Ok(result.val.inner.resource)

C10_Witness ==
  /\ Decoded
  /\ Pristine
  /\ kind = "ContentType"
  /\ entity.variant = "Image"
  /\ result.ok
  /\ result.val.inner.mime_type = "image/png"

====
